---- MODULE Spec2Model ----
(***************************************************************************)
(* Model of packages/browser-utils/src/metrics/browserMetrics.ts: the      *)
(* module-level tracking session (_performanceCursor, _measurements,       *)
(* _lcpEntry, _clsEntry), the web-vital callbacks that write to it and     *)
(* addPerformanceEntries, which drains the performance-entry log, emits    *)
(* spans and finalizes the measurements; and the long-task, interaction    *)
(* and long-animation-frame observer callbacks, which leave the session    *)
(* alone.                                                                  *)
(*                                                                         *)
(* Times.  Entry times (startTime, duration, requestStart, ...) are whole  *)
(* milliseconds.  Every quantity the code holds in seconds (timeOrigin,    *)
(* span timestamps, mark.fid) is held here as a whole number of            *)
(* microseconds, so that msToSec (time / 1000) is exact: msToSec(t) is     *)
(* t * 1000 microseconds.                                                  *)
(***************************************************************************)
EXTENDS Integers, Sequences, FiniteSets, TLC

VARIABLES
    host,                \* the browser: capabilities, navigator, navigation entry
    tracking,            \* which web-vital handlers startTrackingWebVitals installed
    log,                 \* performance.getEntries(): the append-only entry log
    _performanceCursor,  \* line 64
    _measurements,       \* line 66
    _lcpEntry,           \* line 67
    _clsEntry,           \* line 68
    call,                \* the latest operation: for addPerformanceEntries its arguments,
                         \* whether it passed the gate, and the session as it found it
    drained,             \* log indices of performanceEntries.slice(_performanceCursor) in that call
    dispatched,          \* log indices that call handed to the switch on entry.entryType
    spans,               \* spans that call created with startAndEndSpan, in order
    written,             \* measurements that call passed to setMeasurement
    rootAttrs,           \* attributes that call set on the span with span.setAttribute
    effects,             \* what that call did to the span and the session, in order
    classified,          \* history: log indices some call so far has dispatched
    reclassified,        \* history: indices that call dispatched which an earlier call had dispatched
    seenLen,             \* history: log length when the latest gate-passing call returned
    reported,            \* history: the latest LCP and CLS reports with entries since the
                         \* accumulator was last reset
    skipped,             \* history: log indices some call so far took from the log and
                         \* returned on at line 313, before the switch
    activeSpan,          \* whether getActiveSpan() returns a span
    batch                \* the entries the latest observer callback was handed

vars == << host, tracking, log, _performanceCursor, _measurements, _lcpEntry, _clsEntry,
           call, drained, dispatched, spans, written, rootAttrs, effects, classified,
           reclassified, seenLen, reported, skipped, activeSpan, batch >>

----------------------------------------------------------------------------
(* Bounds of the model *)

\* Longest entry log explored.
MaxLog == 2

----------------------------------------------------------------------------
(* Small helpers *)

Max(a, b) == IF a >= b THEN a ELSE b

Min(a, b) == IF a <= b THEN a ELSE b

\* utils.ts msToSec: time / 1000, seconds held in microseconds.
msToSec(time) == time * 1000

\* The empty mapping ({} in the source).
EmptyMap == [k \in {} |-> 0]

\* obj[key] = val
Put(obj, key, val) == [k \in (DOMAIN obj) \cup {key} |-> IF k = key THEN val ELSE obj[k]]

\* delete obj[key]
Delete(obj, key) == [k \in (DOMAIN obj) \ {key} |-> obj[k]]

\* Attribute values: strings, numbers (booleans as numbers 0/1), and a
\* number with a text suffix (`${n} GB`).
Str(s) == [t |-> "string", s |-> s, n |-> 0]

Num(n) == [t |-> "number", s |-> "", n |-> n]

Bool(b) == [t |-> "boolean", s |-> "", n |-> IF b THEN 1 ELSE 0]

\* A value missing from a record of the host (undefined).
Missing == 0 - 1

NoString == "<undefined>"

\* A byte count.  The counts of an entry are not held to 32 bits, so a count
\* is kept in two parts and stands for high * 2^31 + low, with low in
\* 0 .. 2^31 - 1.
Bytes(high, low) == [high |-> high, low |-> low]

\* A byte count missing from an entry (undefined).
NoBytes == Bytes(Missing, 0)

----------------------------------------------------------------------------
(* The host environment *)

NavTimingFields ==
    { "unloadEventStart", "unloadEventEnd", "redirectStart", "redirectEnd",
      "domContentLoadedEventStart", "domContentLoadedEventEnd",
      "loadEventStart", "loadEventEnd", "connectStart", "connectEnd",
      "secureConnectionStart", "fetchStart", "domainLookupStart", "domainLookupEnd",
      "requestStart", "responseStart", "responseEnd" }

\* Entries other than navigation entries carry no navigation timing.
NoTiming == << >>

\* A PerformanceEntry as the code reads it (entry: Record<string, any>).
Entry(type, name, startTime, duration) ==
    [ entryType |-> type, name |-> name, startTime |-> startTime, duration |-> duration,
      initiatorType |-> NoString, transferSize |-> NoBytes, encodedBodySize |-> NoBytes,
      decodedBodySize |-> NoBytes, deliveryType |-> NoString,
      renderBlockingStatus |-> NoString, timing |-> NoTiming ]

\* A finished page load: every sub-interval present, request before response.
NavLoaded ==
    [ Entry("navigation", "https://a.io/", 0, 6) EXCEPT !.timing =
        [ f \in NavTimingFields |->
            CASE f = "fetchStart" -> 1
              [] f = "domainLookupStart" -> 1
              [] f = "domainLookupEnd" -> 1
              [] f = "connectStart" -> 1
              [] f = "secureConnectionStart" -> 1
              [] f = "connectEnd" -> 2
              [] f = "requestStart" -> 2
              [] f = "responseStart" -> 3
              [] f = "responseEnd" -> 4
              [] f = "domContentLoadedEventStart" -> 4
              [] f = "domContentLoadedEventEnd" -> 5
              [] f = "loadEventStart" -> 5
              [] f = "loadEventEnd" -> 6
              [] OTHER -> 0 ] ]

\* A navigation captured while the document is still streaming in: no
\* response end yet, and a response start earlier than the request start.
NavInFlight ==
    [ Entry("navigation", "https://a.io/", 0, 0) EXCEPT !.timing =
        [ f \in NavTimingFields |->
            CASE f = "fetchStart" -> 1
              [] f = "requestStart" -> 3
              [] f = "responseStart" -> 2
              [] OTHER -> 0 ] ]

\* No navigation entry (getEntriesByType('navigation') is empty).
NoNav == Entry("none", "", 0, 0)

\* WINDOW.navigator, or none.
NoNavigator ==
    [ present |-> FALSE, connection |-> FALSE, effectiveType |-> NoString,
      type |-> NoString, rtt |-> Missing, deviceMemory |-> Missing,
      hardwareConcurrency |-> Missing ]

FullNavigator ==
    [ present |-> TRUE, connection |-> TRUE, effectiveType |-> "4g",
      type |-> "wifi", rtt |-> 50, deviceMemory |-> 8, hardwareConcurrency |-> 4 ]

\* firstHiddenTime of the visibility watcher: Infinity while the page was
\* never hidden, else the time it was first hidden.
Infinity == 1000000

\* The hosts explored: three browsers with every capability, which between
\* them hold each navigation entry, navigator and first-hidden time above,
\* and three browsers that each lack one capability of the gate of line 289.
\* mark tells whether performance.mark exists, the test of line 84.
Host(perf, getEntries, origin, nav, navi, hidden, mark) ==
    [ performance |-> perf, getEntries |-> getEntries,
      browserPerformanceTimeOrigin |-> origin,
      navigationEntry |-> nav, navigator |-> navi, firstHiddenTime |-> hidden,
      mark |-> mark ]

Hosts ==
    { Host(TRUE, TRUE, 7, NavLoaded, FullNavigator, 2, TRUE),
      Host(TRUE, TRUE, 7, NavInFlight, NoNavigator, Infinity, TRUE),
      Host(TRUE, TRUE, 7, NoNav, FullNavigator, Infinity, FALSE),
      Host(FALSE, FALSE, 7, NavLoaded, FullNavigator, Infinity, FALSE),
      Host(TRUE, FALSE, 7, NavLoaded, FullNavigator, Infinity, TRUE),
      Host(TRUE, TRUE, 0, NavLoaded, FullNavigator, Infinity, TRUE) }

\* getBrowserPerformanceAPI(): WINDOW.performance when the host has it.
getBrowserPerformanceAPI == host.performance

\* getNavigationEntry(): the host's navigation entry, if any.  A browser
\* that has one lists it first in performance.getEntries().
getNavigationEntry == host.navigationEntry

HasNavigationEntry == getNavigationEntry.entryType = "navigation"

\* WINDOW.location.origin and parseUrl, on the resource URLs explored.
LocationOrigin == "https://a.io"

parseUrl(url) ==
    CASE url = "https://a.io/x.js"   -> [protocol |-> "https", host |-> "a.io", path |-> "/x.js"]
      [] url = "https://cdn.io/y.png" -> [protocol |-> "https", host |-> "cdn.io", path |-> "/y.png"]
      [] OTHER -> [protocol |-> "", host |-> "", path |-> url]

\* resourceUrl.includes(WINDOW.location.origin)
IncludesOrigin(url) == parseUrl(url).host = "a.io"

\* resourceUrl.replace(WINDOW.location.origin, '')
StripOrigin(url) == IF IncludesOrigin(url) THEN parseUrl(url).path ELSE url

----------------------------------------------------------------------------
(* Web-vital reports *)

\* A LargestContentfulPaint entry as _setWebVitalAttributes reads it; url is
\* a sequence of characters.
LcpImage == [defined |-> TRUE, element |-> "img.hero", id |-> "hero",
             url |-> << " ", "h", "t", "t", "p", " " >>, size |-> 900]

LcpText == [defined |-> TRUE, element |-> "h1", id |-> "", url |-> << >>, size |-> 300]

UndefinedLcp == [defined |-> FALSE, element |-> "", id |-> "", url |-> << >>, size |-> 0]

\* A LayoutShift entry: its sources are the shifted nodes, or it has none.
ShiftTwo == [defined |-> TRUE, hasSources |-> TRUE, sources |-> << "p", "footer" >>]

ShiftBare == [defined |-> TRUE, hasSources |-> FALSE, sources |-> << >>]

UndefinedCls == [defined |-> FALSE, hasSources |-> FALSE, sources |-> << >>]

\* The metric objects handed to the callbacks: { value, entries }.
LcpMetrics ==
    { [value |-> 1, entries |-> << >>],
      [value |-> 2, entries |-> << LcpText >>],
      [value |-> 3, entries |-> << LcpText, LcpImage >>] }

ClsMetrics ==
    { [value |-> 1, entries |-> << >>],
      [value |-> 2, entries |-> << ShiftBare >>],
      [value |-> 3, entries |-> << ShiftBare, ShiftTwo >>] }

FidMetrics ==
    { [value |-> 50, entries |-> << >>],
      [value |-> 50, entries |-> << [startTime |-> 1], [startTime |-> 3] >> ] }

TtfbMetrics ==
    { [value |-> 3, entries |-> << >>],
      [value |-> 3, entries |-> << [startTime |-> 0] >>] }

\* A measurement of the accumulator: { value, unit }.  src is history: the
\* log index of the entry the value was taken from, 0 when it comes from a
\* web-vital report or from the host.
Measurement(value, unit, src) == [value |-> value, unit |-> unit, src |-> src]

\* No report with entries yet.
NoReport == [value |-> 0, entries |-> << >>]

NoReports == [lcp |-> NoReport, cls |-> NoReport]

\* metric.entries[metric.entries.length - 1]
HasLastEntry(metric) == Len(metric.entries) > 0

\* A slip in lines 226 and 239: the first entry of the report is taken.
LastEntry_First(metric) == metric.entries[1]

LastEntry(metric) == metric.entries[Len(metric.entries)]

----------------------------------------------------------------------------
(* What an operation leaves behind for the observer *)

\* kind: "add" for addPerformanceEntries, "other" for anything else.
\* again: the operation before it was a gate-passing addPerformanceEntries
\* too, for a span of op prevOp.  prevLen: the log length when the previous
\* gate-passing call returned.  before: the accumulator when the call began.
NoCall ==
    [ kind |-> "other", op |-> "", start_timestamp |-> 0, recordClsOnPageloadSpan |-> FALSE,
      gate |-> FALSE, again |-> FALSE, prevOp |-> "", prevLen |-> 0, before |-> EmptyMap ]

\* An operation other than addPerformanceEntries creates no span and writes
\* nothing to a span.
Quiet ==
    /\ call' = NoCall
    /\ drained' = << >>
    /\ dispatched' = << >>
    /\ spans' = << >>
    /\ written' = EmptyMap
    /\ rootAttrs' = EmptyMap
    /\ effects' = << >>
    /\ reclassified' = {}
    /\ skipped' = skipped
    /\ UNCHANGED << activeSpan, batch >>

Init ==
    /\ host \in Hosts
    /\ tracking = {}
    /\ log = IF HasNavigationEntry THEN << getNavigationEntry >> ELSE << >>
    /\ _performanceCursor = 0
    /\ _measurements = EmptyMap
    /\ _lcpEntry = UndefinedLcp
    /\ _clsEntry = UndefinedCls
    /\ call = NoCall
    /\ drained = << >>
    /\ dispatched = << >>
    /\ spans = << >>
    /\ written = EmptyMap
    /\ rootAttrs = EmptyMap
    /\ effects = << >>
    /\ classified = {}
    /\ reclassified = {}
    /\ seenLen = 0
    /\ reported = NoReports
    /\ skipped = {}
    /\ activeSpan = FALSE
    /\ batch = << >>

----------------------------------------------------------------------------
(* The host appends entries to the log *)

\* Entries the browser reports after the navigation entry: a paint, a
\* measure taken before the request with a negative duration, a script.
OtherEntries ==
    { Entry("paint", "first-contentful-paint", 1, 0),
      Entry("measure", "hydrate", 1, 0 - 2),
      [ Entry("resource", "https://a.io/x.js", 3, 0 - 1) EXCEPT
          !.initiatorType = "script", !.transferSize = Bytes(0, 300),
          !.encodedBodySize = Bytes(0, 200),
          !.decodedBodySize = Bytes(0, 2147483647), !.deliveryType = "",
          !.renderBlockingStatus = "blocking" ] }

\* The log is explored up to MaxLog entries, the place of the navigation
\* entry counted on a host that has none as well.
LogIsFull == Len(log) + (IF HasNavigationEntry THEN 0 ELSE 1) >= MaxLog

\* The browser records one more entry.
AppendEntry ==
    /\ ~LogIsFull
    /\ \E e \in OtherEntries : log' = Append(log, e)
    /\ Quiet
    /\ UNCHANGED << host, tracking, _performanceCursor, _measurements, _lcpEntry, _clsEntry,
                    classified, seenLen, reported >>

----------------------------------------------------------------------------
(* startTrackingWebVitals and the web-vital callbacks *)

\* performance.mark('sentry-tracing-init') records a mark entry.
TracingInitMark == Entry("mark", "sentry-tracing-init", 2, 0)

\* startTrackingWebVitals({ recordClsStandaloneSpans }), lines 80-101: with
\* the Performance API and a time origin it records the init mark, where the
\* host has performance.mark, and installs the FID, LCP and TTFB handlers and one of the two CLS trackers,
\* and returns the function that removes them (tracking holds the handlers
\* installed); without, it returns a function that does nothing (tracking is
\* { "noop" }).  The tracing integration calls it once per page.
startTrackingWebVitals(recordClsStandaloneSpans) ==
    /\ tracking = {}
    /\ host.mark => ~LogIsFull
    /\ IF getBrowserPerformanceAPI /\ host.browserPerformanceTimeOrigin # 0
       THEN /\ log' = IF host.mark THEN Append(log, TracingInitMark) ELSE log
            /\ tracking' = tracking \cup { "fid", "lcp", "ttfb" }
                  \cup (IF recordClsStandaloneSpans THEN { "clsStandalone" } ELSE { "cls" })
       ELSE /\ tracking' = { "noop" }
            /\ UNCHANGED log
    /\ Quiet
    /\ UNCHANGED << host, _performanceCursor, _measurements, _lcpEntry, _clsEntry,
                    classified, seenLen, reported >>

\* The callback _trackCLS installs, lines 225-233.
_trackCLS(metric) ==
    /\ "cls" \in tracking
    /\ IF ~HasLastEntry(metric)
       THEN UNCHANGED << _measurements, _clsEntry, reported >>
       ELSE /\ _measurements' = Put(_measurements, "cls", Measurement(metric.value, "", 0))
            /\ _clsEntry' = LastEntry(metric)
            /\ reported' = [reported EXCEPT !.cls = metric]
    /\ Quiet
    /\ UNCHANGED << host, tracking, log, _performanceCursor, _lcpEntry, classified, seenLen >>

\* The callback _trackLCP installs, lines 238-247.
_trackLCP(metric) ==
    /\ "lcp" \in tracking
    /\ IF ~HasLastEntry(metric)
       THEN UNCHANGED << _measurements, _lcpEntry, reported >>
       ELSE /\ _measurements' = Put(_measurements, "lcp",
                                    Measurement(metric.value, "millisecond", 0))
            /\ _lcpEntry' = LastEntry(metric)
            /\ reported' = [reported EXCEPT !.lcp = metric]
    /\ Quiet
    /\ UNCHANGED << host, tracking, log, _performanceCursor, _clsEntry, classified, seenLen >>

\* The callback _trackFID installs, lines 252-263.
_trackFID(metric) ==
    /\ "fid" \in tracking
    /\ IF ~HasLastEntry(metric)
       THEN UNCHANGED _measurements
       ELSE LET timeOrigin == msToSec(host.browserPerformanceTimeOrigin)
                startTime == msToSec(LastEntry(metric).startTime)
            IN  _measurements' =
                    Put(Put(_measurements, "fid", Measurement(metric.value, "millisecond", 0)),
                        "mark.fid", Measurement(timeOrigin + startTime, "second", 0))
    /\ Quiet
    /\ UNCHANGED << host, tracking, log, _performanceCursor, _lcpEntry, _clsEntry,
                    classified, seenLen, reported >>

\* The callback _trackTtfb installs, lines 267-275.
_trackTtfb(metric) ==
    /\ "ttfb" \in tracking
    /\ IF ~HasLastEntry(metric)
       THEN UNCHANGED _measurements
       ELSE _measurements' = Put(_measurements, "ttfb",
                                 Measurement(metric.value, "millisecond", 0))
    /\ Quiet
    /\ UNCHANGED << host, tracking, log, _performanceCursor, _lcpEntry, _clsEntry,
                    classified, seenLen, reported >>

\* A slip in lines 92-97: lcpCleanupCallback is not called.
Cleanup_KeepsLcp(installed) == (installed \cap { "lcp" }) \cup { "stopped" }

\* What is left installed once the function of lines 92-97 has called the
\* cleanup callback of every handler.
Cleanup(installed) == { "stopped" }

\* The cleanup callback of a handler added with stopOnCallback (the `true`
\* of lines 233 and 247) first stops the web-vitals listener, which reports
\* the metric as it stands one last time to the handler.
FinalReport(installed, vital) == vital \in installed /\ "stopped" \notin installed

\* The function startTrackingWebVitals returned, lines 92-97 and 100.
stopTrackingWebVitals ==
    /\ tracking # {}
    /\ IF "noop" \in tracking
       THEN UNCHANGED << tracking, _measurements, _lcpEntry, _clsEntry, reported >>
       ELSE /\ tracking' = Cleanup(tracking)
            /\ \E lcp \in (IF FinalReport(tracking, "lcp") THEN LcpMetrics ELSE { NoReport }),
                  cls \in (IF FinalReport(tracking, "cls") THEN ClsMetrics ELSE { NoReport }) :
                  LET m1 == IF FinalReport(tracking, "lcp") /\ HasLastEntry(lcp)
                            THEN Put(_measurements, "lcp",
                                     Measurement(lcp.value, "millisecond", 0))
                            ELSE _measurements
                  IN  /\ _lcpEntry' = IF FinalReport(tracking, "lcp") /\ HasLastEntry(lcp)
                                      THEN LastEntry(lcp) ELSE _lcpEntry
                      /\ _measurements' =
                            IF FinalReport(tracking, "cls") /\ HasLastEntry(cls)
                            THEN Put(m1, "cls", Measurement(cls.value, "", 0))
                            ELSE m1
                      /\ _clsEntry' = IF FinalReport(tracking, "cls") /\ HasLastEntry(cls)
                                      THEN LastEntry(cls) ELSE _clsEntry
                      /\ reported' =
                            [ lcp |-> IF FinalReport(tracking, "lcp") /\ HasLastEntry(lcp)
                                      THEN lcp ELSE reported.lcp,
                              cls |-> IF FinalReport(tracking, "cls") /\ HasLastEntry(cls)
                                      THEN cls ELSE reported.cls ]
    /\ Quiet
    /\ UNCHANGED << host, log, _performanceCursor, classified, seenLen >>

----------------------------------------------------------------------------
(* Spans *)

Origin(o) == Put(EmptyMap, "sentry.origin", Str(o))

\* A span started and ended in one go.  entry is history: the log index of
\* the entry the span was made from, 0 for the first-input-delay span.
Span(name, op, startTimestamp, endTimestamp, attributes, entry) ==
    [ name |-> name, op |-> op, startTimestamp |-> startTimestamp,
      endTimestamp |-> endTimestamp, attributes |-> attributes, entry |-> entry ]

\* utils.ts startAndEndSpan(parentSpan, startTimeInSeconds, endTime, ctx):
\* one more child span of the given start and end.
startAndEndSpan(created, span) == Append(created, span)

\* Math.max(0, entry.duration), line 309.
ClampDuration(duration) == Max(0, duration)

\* The attributes of a mark/paint/measure span, lines 427-434.
MeasureAttributes(measureStartTimestamp, startTimeStamp) ==
    IF measureStartTimestamp # startTimeStamp
    THEN Put(Put(Origin("auto.resource.browser.metrics"),
                 "sentry.browser.measure_happened_before_request", Bool(TRUE)),
             "sentry.browser.measure_start_time", Num(measureStartTimestamp))
    ELSE Origin("auto.resource.browser.metrics")

\* _addMeasureSpans, lines 404-443: the span of a mark, paint or measure entry.
_addMeasureSpans(created, entry, idx, startTime, duration, timeOrigin) ==
    LET navEntry == getNavigationEntry
        requestTime == msToSec(IF HasNavigationEntry THEN navEntry.timing["requestStart"] ELSE 0)
        measureStartTimestamp == timeOrigin + Max(startTime, requestTime)
        startTimeStamp == timeOrigin + startTime
        measureEndTimestamp == startTimeStamp + duration
    IN  startAndEndSpan(created,
            Span(entry.name, entry.entryType, measureStartTimestamp, measureEndTimestamp,
                 MeasureAttributes(measureStartTimestamp, startTimeStamp), idx))

\* A slip in line 469: only the start is tested.
_addPerformanceNavigationTiming_StartOnly(created, entry, idx, event, timeOrigin, name, eventEnd) ==
    LET end == IF eventEnd # NoString THEN entry.timing[eventEnd]
                                      ELSE entry.timing[event \o "End"]
        start == entry.timing[event \o "Start"]
    IN  IF start = 0
        THEN created
        ELSE startAndEndSpan(created,
                 Span(entry.name, "browser." \o (IF name # NoString THEN name ELSE event),
                      timeOrigin + msToSec(start), timeOrigin + msToSec(end),
                      Origin("auto.ui.browser.metrics"), idx))

\* _addPerformanceNavigationTiming, lines 458-479.  name and eventEnd are
\* NoString when the caller leaves them out.
_addPerformanceNavigationTiming(created, entry, idx, event, timeOrigin, name, eventEnd) ==
    LET end == IF eventEnd # NoString THEN entry.timing[eventEnd]
                                      ELSE entry.timing[event \o "End"]
        start == entry.timing[event \o "Start"]
    IN  IF start = 0 \/ end = 0
        THEN created
        ELSE startAndEndSpan(created,
                 Span(entry.name, "browser." \o (IF name # NoString THEN name ELSE event),
                      timeOrigin + msToSec(start), timeOrigin + msToSec(end),
                      Origin("auto.ui.browser.metrics"), idx))

\* _addRequest, lines 483-508.
_addRequest(created, entry, idx, timeOrigin) ==
    LET requestStartTimestamp == timeOrigin + msToSec(entry.timing["requestStart"])
        responseEndTimestamp == timeOrigin + msToSec(entry.timing["responseEnd"])
        responseStartTimestamp == timeOrigin + msToSec(entry.timing["responseStart"])
    IN  IF entry.timing["responseEnd"] # 0
        THEN startAndEndSpan(
                 startAndEndSpan(created,
                     Span(entry.name, "browser.request", requestStartTimestamp,
                          responseEndTimestamp, Origin("auto.ui.browser.metrics"), idx)),
                 Span(entry.name, "browser.response", responseStartTimestamp,
                      responseEndTimestamp, Origin("auto.ui.browser.metrics"), idx))
        ELSE created

\* The events of the forEach of line 448.
NavigationEvents ==
    << "unloadEvent", "redirect", "domContentLoadedEvent", "loadEvent", "connect" >>

RECURSIVE NavigationEventSpans(_, _, _, _, _)
NavigationEventSpans(created, entry, idx, timeOrigin, k) ==
    IF k > Len(NavigationEvents)
    THEN created
    ELSE NavigationEventSpans(
             _addPerformanceNavigationTiming(created, entry, idx, NavigationEvents[k],
                                             timeOrigin, NoString, NoString),
             entry, idx, timeOrigin, k + 1)

\* _addNavigationSpans, lines 447-455.
_addNavigationSpans(created, entry, idx, timeOrigin) ==
    LET s1 == NavigationEventSpans(created, entry, idx, timeOrigin, 1)
        s2 == _addPerformanceNavigationTiming(s1, entry, idx, "secureConnection", timeOrigin,
                                              "TLS/SSL", "connectEnd")
        s3 == _addPerformanceNavigationTiming(s2, entry, idx, "fetch", timeOrigin,
                                              "cache", "domainLookupStart")
        s4 == _addPerformanceNavigationTiming(s3, entry, idx, "domainLookup", timeOrigin,
                                              "DNS", NoString)
    IN  _addRequest(s4, entry, idx, timeOrigin)

\* line 62
MAX_INT_AS_BYTES == 2147483647

\* A byte count as an attribute value.
NumBytes(entryVal) == [t |-> "number", s |-> "", n |-> entryVal.low, high |-> entryVal.high]

\* a < n for a byte count a and an n in 0 .. 2^31 - 1.
BytesBelow(a, n) == a.high = 0 /\ a.low < n

\* A slip in line 646: a count equal to the ceiling is let through.
setResourceEntrySizeData_Inclusive(attributes, entryVal, dataKey) ==
    IF entryVal # NoBytes /\ (BytesBelow(entryVal, MAX_INT_AS_BYTES)
                              \/ entryVal = Bytes(0, MAX_INT_AS_BYTES))
    THEN Put(attributes, dataKey, NumBytes(entryVal))
    ELSE attributes

\* setResourceEntrySizeData, lines 639-649.
setResourceEntrySizeData(attributes, entryVal, dataKey) ==
    IF entryVal # NoBytes /\ BytesBelow(entryVal, MAX_INT_AS_BYTES)
    THEN Put(attributes, dataKey, NumBytes(entryVal))
    ELSE attributes

\* A slip in line 530: only XHR is recognised.
IsFetchOrXhr_XhrOnly(entry) == entry.initiatorType = "xmlhttprequest"

\* Whether _addResourceSpans returns early, line 530.
IsFetchOrXhr(entry) ==
    entry.initiatorType = "xmlhttprequest" \/ entry.initiatorType = "fetch"

\* The op of a resource span, line 568.
ResourceOp(entry) ==
    IF entry.initiatorType # NoString /\ entry.initiatorType # ""
    THEN "resource." \o entry.initiatorType
    ELSE "resource.other"

\* The attributes of a resource span, lines 536-561.
ResourceAttributes(entry, resourceUrl) ==
    LET parsedUrl == parseUrl(resourceUrl)
        a0 == Origin("auto.resource.browser.metrics")
        a1 == setResourceEntrySizeData(a0, entry.transferSize, "http.response_transfer_size")
        a2 == setResourceEntrySizeData(a1, entry.encodedBodySize, "http.response_content_length")
        a3 == setResourceEntrySizeData(a2, entry.decodedBodySize,
                                       "http.decoded_response_content_length")
        a4 == IF entry.deliveryType # NoString
              THEN Put(a3, "http.response_delivery_type",
                       Str(IF entry.deliveryType = "" THEN "default" ELSE entry.deliveryType))
              ELSE a3
        a5 == IF entry.renderBlockingStatus # NoString
              THEN Put(a4, "resource.render_blocking_status", Str(entry.renderBlockingStatus))
              ELSE a4
        a6 == IF parsedUrl.protocol # "" THEN Put(a5, "url.scheme", Str(parsedUrl.protocol)) ELSE a5
        a7 == IF parsedUrl.host # "" THEN Put(a6, "server.address", Str(parsedUrl.host)) ELSE a6
    IN  Put(a7, "url.same_origin", Bool(IncludesOrigin(resourceUrl)))

\* _addResourceSpans, lines 520-571.
_addResourceSpans(created, entry, idx, resourceUrl, startTime, duration, timeOrigin) ==
    IF IsFetchOrXhr(entry)
    THEN created
    ELSE LET startTimestamp == timeOrigin + startTime
             endTimestamp == startTimestamp + duration
         IN  startAndEndSpan(created,
                 Span(StripOrigin(resourceUrl), ResourceOp(entry), startTimestamp, endTimestamp,
                      ResourceAttributes(entry, resourceUrl), idx))

----------------------------------------------------------------------------
(* addPerformanceEntries: the drain loop, lines 302-350 *)

\* getVisibilityWatcher().firstHiddenTime
firstHiddenTime == host.firstHiddenTime

\* Lines 326-338: the fp / fcp measurement a mark, paint or measure entry
\* leaves in the accumulator.
CaptureWebVitals(measurements, entry, idx) ==
    LET shouldRecord == entry.startTime < firstHiddenTime
        m1 == IF entry.name = "first-paint" /\ shouldRecord
              THEN Put(measurements, "fp", Measurement(entry.startTime, "millisecond", idx))
              ELSE measurements
    IN  IF entry.name = "first-contentful-paint" /\ shouldRecord
        THEN Put(m1, "fcp", Measurement(entry.startTime, "millisecond", idx))
        ELSE m1

\* Line 312: the entry starts before the navigation span did.
BeforeNavigation(op, transactionStartTime, timeOrigin, startTime) ==
    op = "navigation" /\ transactionStartTime # 0 /\ timeOrigin + startTime < transactionStartTime

\* The body of the forEach of line 302 for the entry at log index idx.  st
\* holds the spans created so far, the accumulator and the indices
\* dispatched to the switch.
ClassifyEntry(st, idx, op, transactionStartTime, timeOrigin) ==
    LET entry == log[idx]
        startTime == msToSec(entry.startTime)
        duration == msToSec(ClampDuration(entry.duration))
        seen == [st EXCEPT !.dispatched = Append(@, idx)]
    IN  IF BeforeNavigation(op, transactionStartTime, timeOrigin, startTime)
        THEN st
        ELSE CASE entry.entryType = "navigation" ->
                    [seen EXCEPT !.spans = _addNavigationSpans(@, entry, idx, timeOrigin)]
               [] entry.entryType \in { "mark", "paint", "measure" } ->
                    [seen EXCEPT
                       !.spans = _addMeasureSpans(@, entry, idx, startTime, duration, timeOrigin),
                       !.measurements = CaptureWebVitals(@, entry, idx)]
               [] entry.entryType = "resource" ->
                    [seen EXCEPT
                       !.spans = _addResourceSpans(@, entry, idx, entry.name, startTime,
                                                   duration, timeOrigin)]
               [] OTHER -> seen

\* performanceEntries.slice(_performanceCursor): the log index of its first entry.
SliceStart(cursor) == cursor + 1

RECURSIVE Drain(_, _, _, _, _)
Drain(st, idx, op, transactionStartTime, timeOrigin) ==
    IF idx > Len(log)
    THEN st
    ELSE Drain(ClassifyEntry(st, idx, op, transactionStartTime, timeOrigin),
               idx + 1, op, transactionStartTime, timeOrigin)

\* A slip in line 350: the cursor is left one past the log length.
NextCursor_Beyond(length) == length + 1

\* A slip in line 350: the cursor is left at the log length.
NextCursor_Length(length) == length

\* Line 350.
NextCursor(length) == Max(length - 1, 0)

----------------------------------------------------------------------------
(* addPerformanceEntries: the finalization, lines 352-400 *)

\* isMeasurementValue(value): a finite number.
isMeasurementValue(value) == value # Missing

Truthy(str) == str # NoString /\ str # ""

\* _trackNavigator, lines 576-605: the attributes it sets on the span and
\* the connection.rtt measurement.
_trackNavigator(st) ==
    LET navigator == host.navigator
        a1 == IF navigator.connection /\ Truthy(navigator.effectiveType)
              THEN Put(st.attrs, "effectiveConnectionType", Str(navigator.effectiveType))
              ELSE st.attrs
        a2 == IF navigator.connection /\ Truthy(navigator.type)
              THEN Put(a1, "connectionType", Str(navigator.type))
              ELSE a1
        m1 == IF navigator.connection /\ isMeasurementValue(navigator.rtt)
              THEN Put(st.measurements, "connection.rtt",
                       Measurement(navigator.rtt, "millisecond", 0))
              ELSE st.measurements
        a3 == IF isMeasurementValue(navigator.deviceMemory)
              THEN Put(a2, "deviceMemory", [t |-> "string", s |-> " GB", n |-> navigator.deviceMemory])
              ELSE a2
        a4 == IF isMeasurementValue(navigator.hardwareConcurrency)
              THEN Put(a3, "hardwareConcurrency",
                       [t |-> "string", s |-> "", n |-> navigator.hardwareConcurrency])
              ELSE a3
    IN  IF ~navigator.present
        THEN st
        ELSE [st EXCEPT !.attrs = a4, !.measurements = m1,
                        !.effects = IF a4 # st.attrs THEN Append(@, "client attributes") ELSE @]

\* A slip in line 664: the request time is stored whatever its sign.
_addTtfbRequestTimeToMeasurements_Unguarded(measurements) ==
    IF ~HasNavigationEntry
    THEN measurements
    ELSE Put(measurements, "ttfb.requestTime",
             Measurement(getNavigationEntry.timing["responseStart"]
                            - getNavigationEntry.timing["requestStart"], "millisecond", 0))

\* _addTtfbRequestTimeToMeasurements, lines 656-671.
_addTtfbRequestTimeToMeasurements(measurements) ==
    LET navEntry == getNavigationEntry
        responseStart == navEntry.timing["responseStart"]
        requestStart == navEntry.timing["requestStart"]
    IN  IF ~HasNavigationEntry
        THEN measurements
        ELSE IF requestStart <= responseStart
             THEN Put(measurements, "ttfb.requestTime",
                      Measurement(responseStart - requestStart, "millisecond", 0))
             ELSE measurements

\* Line 359: fidMark && _measurements['fid'].
HasFid(measurements) == "mark.fid" \in DOMAIN measurements /\ "fid" \in DOMAIN measurements

\* A slip in line 361: the delay added in milliseconds.
FidEnd_Milliseconds(fidMark, fid) == fidMark.value + fid.value

\* The end of the first-input-delay span, line 361.
FidEnd(fidMark, fid) == fidMark.value + msToSec(fid.value)

\* A slip in line 370: mark.fid is not deleted.
FidStep_KeepsMark(st) ==
    IF HasFid(st.measurements)
    THEN [st EXCEPT
            !.spans = startAndEndSpan(@,
                Span("first input delay", "ui.action", st.measurements["mark.fid"].value,
                     FidEnd(st.measurements["mark.fid"], st.measurements["fid"]),
                     Origin("auto.ui.browser.metrics"), 0)),
            !.effects = Append(@, "first input delay")]
    ELSE st

\* Lines 358-371: the first-input-delay span, and mark.fid deleted.
FidStep(st) ==
    IF HasFid(st.measurements)
    THEN LET fidMark == st.measurements["mark.fid"]
         IN  [st EXCEPT
                !.spans = startAndEndSpan(@,
                    Span("first input delay", "ui.action", fidMark.value,
                         FidEnd(fidMark, st.measurements["fid"]),
                         Origin("auto.ui.browser.metrics"), 0)),
                !.measurements = Delete(@, "mark.fid"),
                !.effects = Append(@, "first input delay")]
    ELSE st

\* A slip in line 376: the gate forgets fcp.
ClsGate_OptionOnly(measurements, options) ==
    IF ~options.recordClsOnPageloadSpan THEN Delete(measurements, "cls") ELSE measurements

\* Lines 376-378.
ClsGate(measurements, options) ==
    IF ~("fcp" \in DOMAIN measurements) \/ ~options.recordClsOnPageloadSpan
    THEN Delete(measurements, "cls")
    ELSE measurements

\* getActivationStart(): the navigation entry's activationStart, 0 on a
\* page that was not prerendered.
getActivationStart == 0

\* url.trim()
RECURSIVE TrimStart(_)
TrimStart(url) == IF Len(url) > 0 /\ Head(url) = " " THEN TrimStart(Tail(url)) ELSE url

RECURSIVE TrimEnd(_)
TrimEnd(url) ==
    IF Len(url) > 0 /\ url[Len(url)] = " " THEN TrimEnd(SubSeq(url, 1, Len(url) - 1)) ELSE url

\* The cls.source.N attributes, lines 633-635.
RECURSIVE ClsSourceAttributes(_, _, _)
ClsSourceAttributes(attrs, sources, index) ==
    IF index >= Len(sources)
    THEN attrs
    ELSE ClsSourceAttributes(
             Put(attrs, "cls.source." \o ToString(index + 1), Str(sources[index + 1])),
             sources, index + 1)

\* _setWebVitalAttributes, lines 608-637.
_setWebVitalAttributes(attrs) ==
    LET a1 == IF _lcpEntry.element # "" THEN Put(attrs, "lcp.element", Str(_lcpEntry.element))
                                        ELSE attrs
        a2 == IF _lcpEntry.id # "" THEN Put(a1, "lcp.id", Str(_lcpEntry.id)) ELSE a1
        a3 == IF Len(_lcpEntry.url) > 0
              THEN LET trimmed == TrimEnd(TrimStart(_lcpEntry.url))
                   IN  Put(a2, "lcp.url",
                           [t |-> "chars", s |-> "", n |-> 0,
                            chars |-> SubSeq(trimmed, 1, Min(200, Len(trimmed)))])
              ELSE a2
        a4 == Put(a3, "lcp.size", Num(_lcpEntry.size))
        withLcp == IF _lcpEntry.defined THEN a4 ELSE attrs
    IN  IF _clsEntry.defined /\ _clsEntry.hasSources
        THEN ClsSourceAttributes(withLcp, _clsEntry.sources, 0)
        ELSE withLcp

\* Line 356.
TtfbStep(st) ==
    LET measurements == _addTtfbRequestTimeToMeasurements(st.measurements)
    IN  [st EXCEPT !.measurements = measurements,
                   !.effects = IF "ttfb.requestTime" \in DOMAIN measurements
                               THEN Append(@, "ttfb.requestTime") ELSE @]

\* Lines 376-378.
GateStep(st, options) ==
    LET measurements == ClsGate(st.measurements, options)
    IN  [st EXCEPT !.measurements = measurements,
                   !.effects = IF measurements # st.measurements
                               THEN Append(@, "cls gated") ELSE @]

\* Lines 380-382: Object.entries(_measurements).forEach(setMeasurement).
WriteStep(st) ==
    [st EXCEPT !.written = st.measurements,
               !.effects = IF st.measurements # EmptyMap THEN Append(@, "setMeasurement") ELSE @]

\* Lines 385 and 393.
PerformanceAttributesStep(st, timeOrigin) ==
    [st EXCEPT !.attrs = Put(Put(@, "performance.timeOrigin", Num(timeOrigin)),
                             "performance.activationStart", Num(getActivationStart)),
               !.effects = Append(@, "performance attributes")]

\* Line 395.
WebVitalStep(st) ==
    LET attrs == _setWebVitalAttributes(st.attrs)
    IN  [st EXCEPT !.attrs = attrs,
                   !.effects = IF attrs # st.attrs THEN Append(@, "web vital attributes") ELSE @]

\* A slip in lines 373-382: the measurements are written before cls is gated.
Finalize_WriteBeforeGate(st, options, timeOrigin) ==
    WebVitalStep(PerformanceAttributesStep(
        GateStep(WriteStep(FidStep(TtfbStep(st))), options), timeOrigin))

\* Lines 355-396: what a pageload span gets.  st holds the spans created so
\* far, the accumulator, the measurements written, the span's attributes
\* and the effects so far.
Finalize(st, options, timeOrigin) ==
    WebVitalStep(PerformanceAttributesStep(
        WriteStep(GateStep(FidStep(TtfbStep(st)), options)), timeOrigin))

\* Lines 398-400.
ResetLcpEntry(entry) == UndefinedLcp

ResetClsEntry(entry) == UndefinedCls

\* A slip in line 400: the accumulator kept.
ResetMeasurements_Kept(measurements) == measurements

ResetMeasurements(measurements) == EmptyMap

\* A slip in line 289: the time origin is not looked at.
GateFails_OriginIgnored(h) == ~h.performance \/ ~h.getEntries

\* Line 289: !performance || !WINDOW.performance.getEntries ||
\* !browserPerformanceTimeOrigin.
GateFails(h) == ~h.performance \/ ~h.getEntries \/ h.browserPerformanceTimeOrigin = 0

\* The root spans and options addPerformanceEntries is called with: a
\* pageload span with CLS on it or standalone, and a navigation span with
\* and without a start timestamp (0 stands for a span that has none).
RootSpan(op, start_timestamp) == [op |-> op, start_timestamp |-> start_timestamp]

Calls ==
    { [span |-> RootSpan("pageload", msToSec(7 + 2)), recordClsOnPageloadSpan |-> TRUE],
      [span |-> RootSpan("pageload", msToSec(7 + 2)), recordClsOnPageloadSpan |-> FALSE],
      [span |-> RootSpan("navigation", msToSec(7 + 2)), recordClsOnPageloadSpan |-> TRUE],
      [span |-> RootSpan("navigation", 0), recordClsOnPageloadSpan |-> FALSE] }

Indices(seq) == { seq[i] : i \in 1..Len(seq) }

\* addPerformanceEntries(span, options), lines 287-401.
addPerformanceEntries(span, options) ==
    LET info(gate) ==
            [ kind |-> "add", op |-> span.op, start_timestamp |-> span.start_timestamp,
              recordClsOnPageloadSpan |-> options.recordClsOnPageloadSpan, gate |-> gate,
              again |-> (call.kind = "add" /\ call.gate), prevOp |-> call.op,
              prevLen |-> seenLen, before |-> _measurements ]
    IN  IF GateFails(host)
        THEN /\ call' = info(FALSE)
             /\ drained' = << >>
             /\ dispatched' = << >>
             /\ spans' = << >>
             /\ written' = EmptyMap
             /\ rootAttrs' = EmptyMap
             /\ effects' = << >>
             /\ reclassified' = {}
             /\ UNCHANGED << host, tracking, log, _performanceCursor, _measurements,
                             _lcpEntry, _clsEntry, classified, seenLen, reported,
                             skipped, activeSpan, batch >>
        ELSE LET timeOrigin == msToSec(host.browserPerformanceTimeOrigin)
                 performanceEntries == log
                 first == SliceStart(_performanceCursor)
             IN  \E loop \in { Drain([spans |-> << >>, measurements |-> _measurements,
                                       dispatched |-> << >>],
                                      first, span.op, span.start_timestamp, timeOrigin) } :
                 \E s1 \in { _trackNavigator([spans |-> loop.spans,
                                               measurements |-> loop.measurements,
                                               written |-> EmptyMap, attrs |-> EmptyMap,
                                               effects |-> << >>]) } :
                 \E s2 \in { IF span.op = "pageload" THEN Finalize(s1, options, timeOrigin)
                                                      ELSE s1 } :
                     /\ call' = info(TRUE)
                     /\ drained' = [i \in 1..Max(Len(performanceEntries) - first + 1, 0) |->
                                       first + i - 1]
                     /\ dispatched' = loop.dispatched
                     /\ _performanceCursor' = NextCursor(Len(performanceEntries))
                     /\ spans' = s2.spans
                     /\ written' = s2.written
                     /\ rootAttrs' = s2.attrs
                     /\ effects' = Append(s2.effects, "reset")
                     /\ _lcpEntry' = ResetLcpEntry(_lcpEntry)
                     /\ _clsEntry' = ResetClsEntry(_clsEntry)
                     /\ _measurements' = ResetMeasurements(s2.measurements)
                     /\ reclassified' = Indices(loop.dispatched) \cap classified
                     /\ classified' = classified \cup Indices(loop.dispatched)
                     /\ seenLen' = Len(performanceEntries)
                     /\ reported' = NoReports
                     /\ skipped' = skipped \cup
                            ((first..Len(performanceEntries)) \ Indices(loop.dispatched))
                     /\ UNCHANGED << host, tracking, log, activeSpan, batch >>

----------------------------------------------------------------------------
(* The specification *)

AddCall ==
    \E c \in Calls :
        addPerformanceEntries(c.span, [recordClsOnPageloadSpan |-> c.recordClsOnPageloadSpan])

Next ==
    \/ AppendEntry
    \/ \E recordClsStandaloneSpans \in BOOLEAN : startTrackingWebVitals(recordClsStandaloneSpans)
    \/ stopTrackingWebVitals
    \/ \E metric \in ClsMetrics : _trackCLS(metric)
    \/ \E metric \in LcpMetrics : _trackLCP(metric)
    \/ \E metric \in FidMetrics : _trackFID(metric)
    \/ \E metric \in TtfbMetrics : _trackTtfb(metric)
    \/ AddCall

Spec == Init /\ [][Next]_vars

----------------------------------------------------------------------------
(* The classification of one entry, over a wide range of entries *)

ResourceEntries ==
    { [ Entry("resource", url, startTime, duration) EXCEPT
          !.initiatorType = initiatorType, !.transferSize = size,
          !.deliveryType = deliveryType, !.renderBlockingStatus = blocking ] :
        url \in { "https://a.io/x.js", "https://cdn.io/y.png" },
        startTime \in { 1, 3 },
        duration \in { 0 - 2, 2 },
        initiatorType \in { NoString, "", "fetch", "xmlhttprequest", "script", "img" },
        size \in { NoBytes, Bytes(0, 300) },
        deliveryType \in { NoString, "" },
        blocking \in { NoString } }

MeasureEntries ==
    { Entry(type, name, startTime, duration) :
        type \in { "mark", "paint", "measure" },
        name \in { "first-paint", "first-contentful-paint", "hydrate" },
        startTime \in 0..3,
        duration \in { 0 - 2, 2 } }

IgnoredEntries == { Entry(type, "self", 2, 60) : type \in { "longtask", "event" } }

\* The log holds the navigation entry, if the host has one, and one entry
\* out of the range above; nothing else has happened yet.
InitClassify ==
    /\ host \in Hosts
    /\ tracking = {}
    /\ \E e \in ResourceEntries \cup MeasureEntries \cup IgnoredEntries :
          log = IF HasNavigationEntry THEN << getNavigationEntry, e >> ELSE << e >>
    /\ _performanceCursor = 0
    /\ _measurements = EmptyMap
    /\ _lcpEntry = UndefinedLcp
    /\ _clsEntry = UndefinedCls
    /\ call = NoCall
    /\ drained = << >>
    /\ dispatched = << >>
    /\ spans = << >>
    /\ written = EmptyMap
    /\ rootAttrs = EmptyMap
    /\ effects = << >>
    /\ classified = {}
    /\ reclassified = {}
    /\ seenLen = 0
    /\ reported = NoReports
    /\ skipped = {}
    /\ activeSpan = FALSE
    /\ batch = << >>

NextClassify == AddCall

SpecClassify == InitClassify /\ [][NextClassify]_vars

----------------------------------------------------------------------------
(* The size attributes of one resource entry, over a range of byte counts *)

\* No count, 0, a usual count, the ceiling less one, the ceiling
\* 2147483647 and the ceiling plus one.
SizeValues ==
    { NoBytes, Bytes(0, 0), Bytes(0, 300), Bytes(0, 2147483646), Bytes(0, 2147483647),
      Bytes(1, 0) }

SizedEntries ==
    { [ Entry("resource", "https://cdn.io/y.png", 3, 2) EXCEPT
          !.initiatorType = "img", !.transferSize = transferSize,
          !.encodedBodySize = encodedBodySize, !.decodedBodySize = decodedBodySize ] :
        transferSize \in SizeValues, encodedBodySize \in SizeValues,
        decodedBodySize \in SizeValues }

\* The log holds the navigation entry, if the host has one, and one resource
\* entry; nothing else has happened yet.
InitSizes ==
    /\ host \in { h \in Hosts : ~GateFails(h) }
    /\ tracking = {}
    /\ \E e \in SizedEntries :
          log = IF HasNavigationEntry THEN << getNavigationEntry, e >> ELSE << e >>
    /\ _performanceCursor = 0
    /\ _measurements = EmptyMap
    /\ _lcpEntry = UndefinedLcp
    /\ _clsEntry = UndefinedCls
    /\ call = NoCall
    /\ drained = << >>
    /\ dispatched = << >>
    /\ spans = << >>
    /\ written = EmptyMap
    /\ rootAttrs = EmptyMap
    /\ effects = << >>
    /\ classified = {}
    /\ reclassified = {}
    /\ seenLen = 0
    /\ reported = NoReports
    /\ skipped = {}
    /\ activeSpan = FALSE
    /\ batch = << >>

NextSizes == AddCall

SpecSizes == InitSizes /\ [][NextSizes]_vars

----------------------------------------------------------------------------
(* The expansion of one navigation entry, over a range of timings *)

\* A navigation entry with every timing field set.
NavComplete ==
    [ NavLoaded EXCEPT !.timing =
        [ f \in NavTimingFields |-> IF NavLoaded.timing[f] = 0 THEN 1 ELSE NavLoaded.timing[f] ] ]

\* The same with no, one or two of its fields missing (0).
NavEntries ==
    { NavComplete } \cup
    { [ NavComplete EXCEPT !.timing =
          [ f \in NavTimingFields |-> IF f \in { a, b } THEN 0 ELSE NavComplete.timing[f] ] ] :
        a \in NavTimingFields, b \in NavTimingFields }

\* The log holds the host's navigation entry; nothing else has happened yet.
InitNavigation ==
    /\ \E nav \in NavEntries : host = Host(TRUE, TRUE, 7, nav, NoNavigator, Infinity, TRUE)
    /\ tracking = {}
    /\ log = << getNavigationEntry >>
    /\ _performanceCursor = 0
    /\ _measurements = EmptyMap
    /\ _lcpEntry = UndefinedLcp
    /\ _clsEntry = UndefinedCls
    /\ call = NoCall
    /\ drained = << >>
    /\ dispatched = << >>
    /\ spans = << >>
    /\ written = EmptyMap
    /\ rootAttrs = EmptyMap
    /\ effects = << >>
    /\ classified = {}
    /\ reclassified = {}
    /\ seenLen = 0
    /\ reported = NoReports
    /\ skipped = {}
    /\ activeSpan = FALSE
    /\ batch = << >>

NextNavigation == AddCall

SpecNavigation == InitNavigation /\ [][NextNavigation]_vars

----------------------------------------------------------------------------
(* The observer callbacks of startTrackingLongTasks,                        *)
(* startTrackingLongAnimationFrames and startTrackingInteractions           *)

\* Longest batch of entries handed to an observer callback.
MaxBatch == 2

\* An entry as the observer callbacks read it: target is what
\* htmlTreeAsString(entry.target) gives, componentName what
\* getComponentName(entry.target) gives ("" for none), scripts the script
\* attributions of a long animation frame.
ObservedEntry(type, name, startTime, duration, target, componentName, scripts) ==
    [ entryType |-> type, name |-> name, startTime |-> startTime, duration |-> duration,
      target |-> target, componentName |-> componentName, scripts |-> scripts ]

Script(invoker, sourceURL, sourceFunctionName, sourceCharPosition) ==
    [ invoker |-> invoker, invokerType |-> "event-listener", sourceURL |-> sourceURL,
      sourceFunctionName |-> sourceFunctionName, sourceCharPosition |-> sourceCharPosition ]

LongTaskEntries ==
    { ObservedEntry("longtask", "self", 2, 60, "", "", << >>),
      ObservedEntry("longtask", "same-origin", 5, 70, "", "", << >>) }

EventEntries ==
    { ObservedEntry("event", "click", 2, 8, "button.buy", "BuyButton", << >>),
      ObservedEntry("event", "click", 3, 8, "a", "", << >>),
      ObservedEntry("event", "keydown", 4, 8, "input", "", << >>) }

LongAnimationFrameEntries ==
    { ObservedEntry("long-animation-frame", "long-animation-frame", 2, 60, "", "", << >>),
      ObservedEntry("long-animation-frame", "long-animation-frame", 3, 60, "", "",
                    << Script("BUTTON.onclick", "https://a.io/x.js", "buy", 10) >>),
      ObservedEntry("long-animation-frame", "long-animation-frame", 4, 60, "", "",
                    << Script("TimerHandler:setTimeout", "", "", Missing),
                       Script("BUTTON.onclick", "https://a.io/x.js", "buy", 10) >>) }

\* The batches of up to MaxBatch entries out of a set.
Batches(entries) == UNION { [1..n -> entries] : n \in 0..MaxBatch }

\* startInactiveSpan(options) followed by span.end(endTime): one more span.
\* entry is history: the index in the batch of the entry it was made from.
startInactiveSpan(created, name, op, startTime, endTime, attributes, entry) ==
    Append(created, Span(name, op, startTime, endTime, attributes, entry))

\* Lines 112-113, 146-147, 192-193.
ObservedStart(entry) == msToSec(host.browserPerformanceTimeOrigin + entry.startTime)

ObservedEnd(entry) == ObservedStart(entry) + msToSec(entry.duration)

\* The loop of lines 111-126 from the k-th entry on.
RECURSIVE LongTaskSpans(_, _, _)
LongTaskSpans(created, entries, k) ==
    IF k > Len(entries)
    THEN created
    ELSE LongTaskSpans(
             startInactiveSpan(created, "Main UI thread blocked", "ui.long-task",
                               ObservedStart(entries[k]), ObservedEnd(entries[k]),
                               Origin("auto.ui.browser.metrics"), k),
             entries, k + 1)

\* Line 142: !entry.scripts[0].
HasScript(entry) == Len(entry.scripts) > 0

\* Lines 149-165: the attributes taken from the first script.
LongAnimationFrameAttributes(initialScript) ==
    LET a0 == Put(Put(Origin("auto.ui.browser.metrics"),
                      "browser.script.invoker", Str(initialScript.invoker)),
                  "browser.script.invoker_type", Str(initialScript.invokerType))
        a1 == IF initialScript.sourceURL # ""
              THEN Put(a0, "code.filepath", Str(initialScript.sourceURL)) ELSE a0
        a2 == IF initialScript.sourceFunctionName # ""
              THEN Put(a1, "code.function", Str(initialScript.sourceFunctionName)) ELSE a1
    IN  IF initialScript.sourceCharPosition # Missing
        THEN Put(a2, "browser.script.source_char_position",
                 Num(initialScript.sourceCharPosition))
        ELSE a2

\* The loop of lines 141-176 from the k-th entry on.
RECURSIVE LongAnimationFrameSpans(_, _, _)
LongAnimationFrameSpans(created, entries, k) ==
    IF k > Len(entries)
    THEN created
    ELSE LongAnimationFrameSpans(
             IF ~HasScript(entries[k])
             THEN created
             ELSE startInactiveSpan(created, "Main UI thread blocked",
                                    "ui.long-animation-frame",
                                    ObservedStart(entries[k]), ObservedEnd(entries[k]),
                                    LongAnimationFrameAttributes(entries[k].scripts[1]), k),
             entries, k + 1)

\* A slip in line 191: every event entry is taken.
IsClick_AnyEvent(entry) == TRUE

\* Line 191.
IsClick(entry) == entry.name = "click"

\* Lines 195-207.
InteractionAttributes(entry) ==
    IF entry.componentName # ""
    THEN Put(Origin("auto.ui.browser.metrics"), "ui.component_name", Str(entry.componentName))
    ELSE Origin("auto.ui.browser.metrics")

\* The loop of lines 190-214 from the k-th entry on.
RECURSIVE InteractionSpans(_, _, _)
InteractionSpans(created, entries, k) ==
    IF k > Len(entries)
    THEN created
    ELSE InteractionSpans(
             IF IsClick(entries[k])
             THEN startInactiveSpan(created, entries[k].target,
                                    "ui.interaction." \o entries[k].name,
                                    ObservedStart(entries[k]), ObservedEnd(entries[k]),
                                    InteractionAttributes(entries[k]), k)
             ELSE created,
             entries, k + 1)

\* What an observer callback leaves alone: the whole tracking session.
ObserverFrame(kind) ==
    /\ call' = [NoCall EXCEPT !.kind = kind]
    /\ drained' = << >>
    /\ dispatched' = << >>
    /\ written' = EmptyMap
    /\ rootAttrs' = EmptyMap
    /\ effects' = << >>
    /\ reclassified' = {}
    /\ UNCHANGED << host, tracking, log, _performanceCursor, _measurements, _lcpEntry,
                    _clsEntry, classified, seenLen, reported, skipped, activeSpan >>

\* The callback of lines 107-127.
LongTaskHandler(entries) ==
    /\ batch' = entries
    /\ spans' = IF ~activeSpan THEN << >> ELSE LongTaskSpans(<< >>, entries, 1)
    /\ ObserverFrame("longtask")

\* The callback of lines 137-177.
LongAnimationFrameObserver(entries) ==
    /\ batch' = entries
    /\ spans' = IF ~activeSpan THEN << >> ELSE LongAnimationFrameSpans(<< >>, entries, 1)
    /\ ObserverFrame("long-animation-frame")

\* The callback of lines 186-215.
InteractionHandler(entries) ==
    /\ batch' = entries
    /\ spans' = IF ~activeSpan THEN << >> ELSE InteractionSpans(<< >>, entries, 1)
    /\ ObserverFrame("event")

\* The application starts a span, or the active span ends.
SetActiveSpan ==
    /\ activeSpan' = ~activeSpan
    /\ call' = NoCall
    /\ spans' = << >>
    /\ drained' = << >>
    /\ dispatched' = << >>
    /\ written' = EmptyMap
    /\ rootAttrs' = EmptyMap
    /\ effects' = << >>
    /\ reclassified' = {}
    /\ UNCHANGED << host, tracking, log, _performanceCursor, _measurements, _lcpEntry,
                    _clsEntry, classified, seenLen, reported, skipped, batch >>

InitObservers ==
    /\ host \in { h \in Hosts : h.browserPerformanceTimeOrigin # 0 }
    /\ tracking = {}
    /\ log = << >>
    /\ _performanceCursor = 0
    /\ _measurements = EmptyMap
    /\ _lcpEntry = UndefinedLcp
    /\ _clsEntry = UndefinedCls
    /\ call = NoCall
    /\ drained = << >>
    /\ dispatched = << >>
    /\ spans = << >>
    /\ written = EmptyMap
    /\ rootAttrs = EmptyMap
    /\ effects = << >>
    /\ classified = {}
    /\ reclassified = {}
    /\ seenLen = 0
    /\ reported = NoReports
    /\ skipped = {}
    /\ activeSpan = FALSE
    /\ batch = << >>

NextObservers ==
    \/ SetActiveSpan
    \/ \E entries \in Batches(LongTaskEntries) : LongTaskHandler(entries)
    \/ \E entries \in Batches(LongAnimationFrameEntries) : LongAnimationFrameObserver(entries)
    \/ \E entries \in Batches(EventEntries) : InteractionHandler(entries)

SpecObservers == InitObservers /\ [][NextObservers]_vars

----------------------------------------------------------------------------
(* Properties of the tracking session *)

\* The latest operation was an addPerformanceEntries call that passed the gate.
Added == call.kind = "add" /\ call.gate

\* ... for a pageload span.
Finalized == Added /\ call.op = "pageload"

\* C1 - Idempotent draining: when addPerformanceEntries runs twice in a row
\* (both calls past the gate, nothing appended between them), the second
\* call's slice performanceEntries.slice(_performanceCursor) is empty.
C1_IdempotentDraining == (Added /\ call.again) => drained = << >>

\* C2 - No duplicate classification: no call hands to the switch on
\* entry.entryType an entry that an earlier call already handed to it.
C2_NoDuplicateClassification == reclassified = {}

\* C3 - Session reset, no residue: every measurement a call writes to the
\* span derives from a web-vital report or host value of this cycle (src 0;
\* the accumulator is emptied when a call returns) or from an entry received
\* after the previous call returned, never from an entry the log already
\* held when the previous call returned.
C3_NoResidue ==
    Added => \A name \in DOMAIN written :
                 written[name].src = 0 \/ written[name].src > call.prevLen

\* C4 - Double finalize is idempotent: a pageload call made directly after a
\* pageload call creates no span and writes no measurement.
C4_DoubleFinalizeIdempotent ==
    (Finalized /\ call.again /\ call.prevOp = "pageload")
        => (spans = << >> /\ written = EmptyMap)

\* C5 - CLS gating: a call writes a cls measurement only for a pageload
\* span, with an fcp measurement in the accumulator (so written with it) and
\* with options.recordClsOnPageloadSpan; whatever CLS reports came in, no
\* fcp means no cls.
C5_ClsGating ==
    (Added /\ "cls" \in DOMAIN written)
        => (call.op = "pageload" /\ "fcp" \in DOMAIN written /\ call.recordClsOnPageloadSpan)

\* C5's case: a pageload finalization that found a reported cls in the
\* accumulator, recorded no fcp, and wrote no cls.
C5_Witness ==
    /\ Finalized
    /\ call.recordClsOnPageloadSpan
    /\ "cls" \in DOMAIN call.before
    /\ "fcp" \notin DOMAIN written
    /\ "cls" \notin DOMAIN written

FidSpans == { i \in 1..Len(spans) : spans[i].name = "first input delay" }

\* C6 - FID derived span: a pageload finalization that finds fid and
\* mark.fid in the accumulator creates exactly one 'first input delay' span
\* of op ui.action, from the mark.fid value to the mark.fid value plus the
\* fid value taken from milliseconds to seconds; mark.fid is not written
\* with setMeasurement and is gone from the accumulator.
C6_FidDerivedSpan ==
    (Finalized /\ HasFid(call.before))
        => /\ Cardinality(FidSpans) = 1
           /\ \A i \in FidSpans :
                 /\ spans[i].op = "ui.action"
                 /\ spans[i].startTimestamp = call.before["mark.fid"].value
                 /\ spans[i].endTimestamp =
                        call.before["mark.fid"].value + 1000 * call.before["fid"].value
           /\ "mark.fid" \notin DOMAIN written
           /\ "fid" \in DOMAIN written
           /\ "mark.fid" \notin DOMAIN _measurements

\* C6's case, on the report of a 50 ms delay of an input at 3 ms with the
\* time origin at 7 ms: the span runs from 0.010 s to 0.060 s.
C6_Witness ==
    /\ Finalized
    /\ HasFid(call.before)
    /\ \E i \in FidSpans : spans[i].startTimestamp = 10000 /\ spans[i].endTimestamp = 60000

Stopped == "stopped" \in tracking

\* C11 - Cancellation: once the function returned by startTrackingWebVitals
\* has been called, no FID, LCP, TTFB or CLS callback writes to the
\* accumulator or the retained LCP/CLS entries (only addPerformanceEntries
\* still changes them), and calling the function again changes nothing.
C11_Cancellation ==
    [][ Stopped
          => /\ tracking' = tracking
             /\ call'.kind # "add" => UNCHANGED << _measurements, _lcpEntry, _clsEntry >> ]_vars

\* C11's case: vitals were reported to the handlers, then tracking stopped.
C11_Witness ==
    /\ Stopped
    /\ { "lcp", "cls", "fid", "ttfb" } \subseteq DOMAIN _measurements
    /\ _lcpEntry.defined

\* The step is an addPerformanceEntries call that creates no span, writes
\* nothing to the span and leaves the session as it was; any other step is
\* not concerned.
AddLeavesUntouched ==
    call'.kind = "add"
        => /\ spans' = << >>
           /\ written' = EmptyMap
           /\ rootAttrs' = EmptyMap
           /\ UNCHANGED << _performanceCursor, _measurements, _lcpEntry, _clsEntry >>

\* The function startTrackingWebVitals returned does nothing when called.
NoopDoesNothing ==
    ("noop" \in tracking /\ call'.kind # "add")
        => UNCHANGED << tracking, _performanceCursor, _measurements, _lcpEntry, _clsEntry >>

\* C12 as claimed - Absent capability: on a host without the Performance
\* API, without performance.getEntries or without a time origin,
\* addPerformanceEntries creates no span, writes nothing to the span and
\* leaves the session untouched, and startTrackingWebVitals installs no
\* handler and returns a function that does nothing.
C12_AbsentCapability ==
    [][ (~host.performance \/ ~host.getEntries \/ host.browserPerformanceTimeOrigin = 0)
          => /\ AddLeavesUntouched
             /\ tracking' \subseteq { "noop" }
             /\ NoopDoesNothing ]_vars

\* C12 as amended: addPerformanceEntries does so on each of the three
\* hosts; startTrackingWebVitals installs no handler and returns a function
\* that does nothing on a host without the Performance API or without a
\* time origin (it does not look at performance.getEntries).
C12_AbsentCapabilityOfEach ==
    [][ /\ (~host.performance \/ ~host.getEntries \/ host.browserPerformanceTimeOrigin = 0)
             => AddLeavesUntouched
        /\ (~host.performance \/ host.browserPerformanceTimeOrigin = 0)
             => (tracking' \subseteq { "noop" } /\ NoopDoesNothing) ]_vars

\* C12's case: an addPerformanceEntries call stopped at the gate while the
\* accumulator and the retained entries held reported vitals, and left them.
C12_Witness ==
    /\ call.kind = "add"
    /\ ~call.gate
    /\ { "lcp", "cls" } \subseteq DOMAIN _measurements
    /\ _lcpEntry.defined
    /\ _clsEntry.defined

\* C13 - Cleared only by a pageload finalization: an addPerformanceEntries
\* call for a span whose op is not pageload writes no measurement and leaves
\* what the accumulator and the retained LCP/CLS entries held (fp, fcp and
\* connection.rtt apart, which the call itself may record anew), so that
\* the vitals reported before it are there for the later pageload call.
C13_ClearedOnlyByPageload ==
    (Added /\ call.op # "pageload")
        => /\ written = EmptyMap
           /\ \A name \in DOMAIN call.before :
                 /\ name \in DOMAIN _measurements
                 /\ name \notin { "fp", "fcp", "connection.rtt" }
                       => _measurements[name] = call.before[name]
           /\ "lcp" \in DOMAIN call.before => _lcpEntry.defined
           /\ "cls" \in DOMAIN call.before => _clsEntry.defined

\* The place the claim gives an effect in the order of a finalization.
StepClaimed(effect) ==
    CASE effect = "ttfb.requestTime"       -> 1
      [] effect = "first input delay"      -> 2
      [] effect = "cls gated"              -> 3
      [] effect = "setMeasurement"         -> 4
      [] effect = "performance attributes" -> 5
      [] effect = "client attributes"      -> 6
      [] effect = "web vital attributes"   -> 7
      [] effect = "reset"                  -> 8

\* The same with the client attributes ahead of everything else.
StepAmended(effect) == IF effect = "client attributes" THEN 0 ELSE StepClaimed(effect)

\* C14 as claimed - Finalizer step order: the effects of a pageload call
\* come in the order ttfb.requestTime stored, first-input-delay span and
\* mark.fid deleted, cls gated, measurements written, performance.*
\* attributes, client attributes, lcp.* / cls.source.* attributes, reset.
C14_StepOrder ==
    Finalized => \A i, j \in 1..Len(effects) :
                     i < j => StepClaimed(effects[i]) < StepClaimed(effects[j])

\* C14 as amended: the client attributes are set first, before
\* ttfb.requestTime is stored; the other steps follow in the order claimed.
C14_StepOrderClientFirst ==
    Finalized => \A i, j \in 1..Len(effects) :
                     i < j => StepAmended(effects[i]) < StepAmended(effects[j])

\* C14's case: a finalization in which every one of the eight steps had
\* something to do.
C14_Witness == Finalized /\ Len(effects) = 8

\* What the accumulator and a retained entry hold of a vital given the
\* latest report with entries since the last reset: its value and its last
\* entry, or nothing when there was no such report.
PairedWith(name, retained, undefined, report) ==
    IF Len(report.entries) > 0
    THEN /\ name \in DOMAIN _measurements
         /\ _measurements[name].value = report.value
         /\ retained = report.entries[Len(report.entries)]
    ELSE /\ name \notin DOMAIN _measurements
         /\ retained = undefined

\* C15 - Last report wins, value and entry stay paired: cls (lcp) in the
\* accumulator is the value of the most recent CLS (LCP) report with entries
\* since the last reset and _clsEntry (_lcpEntry) is the last entry of that
\* report; a report without entries changes nothing.
C15_LastReportWins ==
    /\ PairedWith("cls", _clsEntry, UndefinedCls, reported.cls)
    /\ PairedWith("lcp", _lcpEntry, UndefinedLcp, reported.lcp)

\* C15's case: the report of two shifts and the report of two LCP
\* candidates are the ones retained.
C15_Witness ==
    /\ reported.cls.value = 3
    /\ _clsEntry = ShiftTwo
    /\ _measurements["cls"].value = 3
    /\ reported.lcp.value = 3
    /\ _lcpEntry = LcpImage

\* C16 - Cursor advance: a call past the gate leaves the cursor at
\* max(log length - 1, 0); the cursor is never negative, never beyond the
\* log length, and never moves back while the log only grows.
C16_CursorAdvance ==
    /\ [](Added => _performanceCursor = (IF Len(log) - 1 >= 0 THEN Len(log) - 1 ELSE 0))
    /\ [](0 <= _performanceCursor /\ _performanceCursor <= Len(log))
    /\ [][_performanceCursor' >= _performanceCursor]_vars

\* C16's case: a call directly after a call on a log of two entries,
\* the cursor still on the last of them.
C16_Witness == Added /\ call.again /\ Len(log) = 2 /\ _performanceCursor = 1

\* C18 - ttfb.requestTime: a call writes ttfb.requestTime to the span
\* exactly when the span's op is pageload and there is a navigation entry
\* with requestStart <= responseStart; the value is responseStart -
\* requestStart, so never negative.
C18_TtfbRequestTime ==
    Added =>
        LET timing == host.navigationEntry.timing
            present == host.navigationEntry.entryType = "navigation"
        IN  IF /\ call.op = "pageload"
               /\ present
               /\ timing["requestStart"] <= timing["responseStart"]
            THEN /\ "ttfb.requestTime" \in DOMAIN written
                 /\ written["ttfb.requestTime"].value
                        = timing["responseStart"] - timing["requestStart"]
                 /\ written["ttfb.requestTime"].value >= 0
            ELSE "ttfb.requestTime" \notin DOMAIN written

\* C18's case: a pageload call on the host whose navigation entry has
\* requestStart 2 and responseStart 3 wrote ttfb.requestTime = 1.
C18_Witness ==
    /\ Finalized
    /\ "ttfb.requestTime" \in DOMAIN written
    /\ written["ttfb.requestTime"].value = 1

\* C22 - No entry is lost: when a call past the gate returns, every entry
\* of the log has been iterated by the forEach of line 302 in that call or
\* in an earlier one (handed to the switch, or returned on at line 313).
C22_NoEntryLost == Added => (1..Len(log)) \subseteq (classified \cup skipped)

\* C22's case: an entry appended after a call was iterated by the next call.
C22_Witness ==
    /\ Added
    /\ call.prevLen = 1
    /\ Len(log) = 2
    /\ 2 \in Indices(drained)
    /\ classified \cup skipped = { 1, 2 }

\* C23 - fid and mark.fid go together: whenever an operation begins, and
\* when an addPerformanceEntries call began, the accumulator holds both fid
\* and mark.fid or neither; and no call writes mark.fid with setMeasurement.
C23_FidPaired ==
    /\ ("fid" \in DOMAIN _measurements) = ("mark.fid" \in DOMAIN _measurements)
    /\ ("fid" \in DOMAIN call.before) = ("mark.fid" \in DOMAIN call.before)
    /\ "mark.fid" \notin DOMAIN written

\* C23's case: a pageload call began with both in the accumulator, wrote fid
\* alone, and left neither.
C23_Witness ==
    /\ Finalized
    /\ { "fid", "mark.fid" } \subseteq DOMAIN call.before
    /\ "fid" \in DOMAIN written
    /\ "mark.fid" \notin DOMAIN written
    /\ { "fid", "mark.fid" } \cap DOMAIN _measurements = {}

\* The first-contentful-paint entries the latest call classified that start
\* before the page was first hidden.
FcpClassified ==
    { i \in Indices(dispatched) :
        /\ log[i].entryType \in { "mark", "paint", "measure" }
        /\ log[i].name = "first-contentful-paint"
        /\ log[i].startTime < firstHiddenTime }

\* C24 - CLS needs the fcp of its own call: a call writes cls only to a
\* pageload span and only when it classified itself a first-contentful-paint
\* entry that starts before the first-hidden time, and the entry the fcp
\* value came from was not drained by an earlier call.
C24_ClsNeedsOwnFcp ==
    (Added /\ "cls" \in DOMAIN written)
        => /\ call.op = "pageload"
           /\ "fcp" \in DOMAIN written
           /\ written["fcp"].src \in FcpClassified
           /\ written["fcp"].src > call.prevLen

\* The cls.source.N attributes on the span of the latest call.
ClsSourcesSet ==
    { n \in 1..4 : ("cls.source." \o ToString(n)) \in DOMAIN rootAttrs }

\* C25 - CLS debugging attributes follow the CLS gate: a pageload
\* finalization sets cls.source.N attributes on the span only when it also
\* writes the cls measurement; when the gate drops cls (no fcp, or
\* recordClsOnPageloadSpan false) no cls.source.N attribute is attached.
C25_ClsSourcesFollowGate ==
    (Finalized /\ ClsSourcesSet # {}) => "cls" \in DOMAIN written

----------------------------------------------------------------------------
(* Properties of the spans made from entries *)

\* The spans of the latest call made from the entry at log index i.
SpansOf(i) == { k \in 1..Len(spans) : spans[k].entry = i }

\* requestStart of the navigation entry, 0 without one (line 413).
RequestStart == IF HasNavigationEntry THEN getNavigationEntry.timing["requestStart"] ELSE 0

\* C7 - Duration clamp: the span made from a resource, mark, paint or
\* measure entry of negative duration ends when it starts, whatever the
\* entry's startTime and the navigation entry's requestStart.
C7_DurationClamp ==
    Added => \A k \in 1..Len(spans) :
                 LET i == spans[k].entry
                 IN  ( /\ i > 0
                       /\ log[i].entryType \in { "resource", "mark", "paint", "measure" }
                       /\ log[i].duration < 0 )
                         => spans[k].endTimestamp - spans[k].startTimestamp = 0

\* C8 - Pinned measure start: the span of a mark, paint or measure entry
\* that starts before requestStart starts at timeOrigin + requestStart and
\* carries measure_happened_before_request = true and, as
\* measure_start_time, the original start timeOrigin + entry.startTime; the
\* span of an entry that does not start before requestStart carries neither.
C8_PinnedMeasureStart ==
    Added => \A k \in 1..Len(spans) :
                 LET i == spans[k].entry
                     timeOrigin == 1000 * host.browserPerformanceTimeOrigin
                     attributes == spans[k].attributes
                 IN  (i > 0 /\ log[i].entryType \in { "mark", "paint", "measure" })
                         => IF log[i].startTime < RequestStart
                            THEN /\ spans[k].startTimestamp = timeOrigin + 1000 * RequestStart
                                 /\ "sentry.browser.measure_happened_before_request"
                                        \in DOMAIN attributes
                                 /\ attributes["sentry.browser.measure_happened_before_request"]
                                        = Bool(TRUE)
                                 /\ "sentry.browser.measure_start_time" \in DOMAIN attributes
                                 /\ attributes["sentry.browser.measure_start_time"]
                                        = Num(timeOrigin + 1000 * log[i].startTime)
                            ELSE /\ "sentry.browser.measure_happened_before_request"
                                        \notin DOMAIN attributes
                                 /\ "sentry.browser.measure_start_time" \notin DOMAIN attributes

\* C17 - Pre-navigation skip: a call for a navigation span that has a start
\* timestamp makes no span from, and does not hand to the switch (so takes
\* no fp/fcp from), an entry of its slice with timeOrigin + startTime before
\* the span's start; and an entry skipped so is not handed to the switch by
\* a later call for a span of another op.
C17_PreNavigationSkip ==
    /\ (Added /\ call.op = "navigation" /\ call.start_timestamp # 0)
          => \A i \in Indices(drained) :
                 1000 * host.browserPerformanceTimeOrigin + 1000 * log[i].startTime
                       < call.start_timestamp
                     => (SpansOf(i) = {} /\ i \notin Indices(dispatched))
    /\ (Added /\ call.op # "navigation") => Indices(dispatched) \cap skipped = {}

\* The sub-intervals of a navigation entry: the op of the span and the
\* fields its start and its end are read from.
SubIntervals ==
    { << "browser.unloadEvent", "unloadEventStart", "unloadEventEnd" >>,
      << "browser.redirect", "redirectStart", "redirectEnd" >>,
      << "browser.domContentLoadedEvent", "domContentLoadedEventStart",
         "domContentLoadedEventEnd" >>,
      << "browser.loadEvent", "loadEventStart", "loadEventEnd" >>,
      << "browser.connect", "connectStart", "connectEnd" >>,
      << "browser.TLS/SSL", "secureConnectionStart", "connectEnd" >>,
      << "browser.cache", "fetchStart", "domainLookupStart" >>,
      << "browser.DNS", "domainLookupStart", "domainLookupEnd" >> }

\* The spans of the latest call made from the entry at log index i with op.
SpansOfOp(i, op) == { k \in SpansOf(i) : spans[k].op = op }

\* C19 - Navigation expansion: of a navigation entry handed to the switch,
\* each of the eight sub-intervals yields one span if its start field and
\* its end field are both non-zero and none otherwise; browser.request and
\* browser.response are made, one each, if responseEnd is non-zero and
\* neither otherwise; the entry yields at most ten spans.
C19_NavigationExpansion ==
    Added => \A i \in Indices(dispatched) :
                 log[i].entryType = "navigation"
                     => /\ \A sub \in SubIntervals :
                              Cardinality(SpansOfOp(i, sub[1])) =
                                  IF log[i].timing[sub[2]] # 0 /\ log[i].timing[sub[3]] # 0
                                  THEN 1 ELSE 0
                        /\ \A op \in { "browser.request", "browser.response" } :
                              Cardinality(SpansOfOp(i, op)) =
                                  IF log[i].timing["responseEnd"] # 0 THEN 1 ELSE 0
                        /\ Cardinality(SpansOf(i)) <= 10

\* C19's case: a navigation entry with every field set but redirectEnd
\* yields nine spans, none of them for the redirect.
C19_Witness ==
    /\ Added
    /\ 1 \in Indices(dispatched)
    /\ log[1].entryType = "navigation"
    /\ log[1].timing["redirectStart"] # 0
    /\ log[1].timing["redirectEnd"] = 0
    /\ Cardinality(SpansOf(1)) = 9

\* C20 - Observer-driven spans need an active span: the long-task, event
\* and long-animation-frame callbacks make no span from a batch handed to
\* them while getActiveSpan() returns none; while a span is active, every
\* long-task entry yields one span, an event entry yields one if it is
\* named click and none otherwise, and a long-animation-frame entry yields
\* one if it has a script attribution and none otherwise.
C20_ObserverSpans ==
    call.kind \in { "longtask", "event", "long-animation-frame" }
        => IF ~activeSpan
           THEN spans = << >>
           ELSE \A k \in 1..Len(batch) :
                    Cardinality(SpansOf(k)) =
                        CASE call.kind = "longtask" -> 1
                          [] call.kind = "event" ->
                                IF batch[k].name = "click" THEN 1 ELSE 0
                          [] call.kind = "long-animation-frame" ->
                                IF Len(batch[k].scripts) >= 1 THEN 1 ELSE 0

\* C20's case: with a span active, a batch of a keydown and a click left one
\* span, the click's.
C20_Witness ==
    /\ call.kind = "event"
    /\ activeSpan
    /\ Len(batch) = 2
    /\ batch[1].name = "keydown"
    /\ batch[2].name = "click"
    /\ Len(spans) = 1
    /\ spans[1].op = "ui.interaction.click"

\* The size attributes and the entry fields they are taken from.
SizeAttributes ==
    { << "http.response_transfer_size", "transferSize" >>,
      << "http.response_content_length", "encodedBodySize" >>,
      << "http.decoded_response_content_length", "decodedBodySize" >> }

\* C21 - Resource size ceiling: the span of a resource entry carries each
\* of the three size attributes, with the entry's count as its value, if
\* the matching field of the entry is present and below 2147483647, and
\* does not carry it if the field is missing, equal to 2147483647 or
\* above; each field is decided by itself.
C21_ResourceSizeCeiling ==
    Added => \A k \in 1..Len(spans) :
                 LET i == spans[k].entry
                     attributes == spans[k].attributes
                 IN  (i > 0 /\ log[i].entryType = "resource")
                         => \A pair \in SizeAttributes :
                                LET size == log[i][pair[2]]
                                IN  IF size.high = 0 /\ size.low < 2147483647
                                    THEN /\ pair[1] \in DOMAIN attributes
                                         /\ attributes[pair[1]].n = size.low
                                         /\ attributes[pair[1]].high = 0
                                    ELSE pair[1] \notin DOMAIN attributes

\* C21's case: of an entry with transferSize 2147483646, encodedBodySize
\* 2147483647 and decodedBodySize 2147483648 the span carries the first only.
C21_Witness ==
    /\ Added
    /\ \E k \in 1..Len(spans) :
          /\ spans[k].entry > 0
          /\ log[spans[k].entry].entryType = "resource"
          /\ log[spans[k].entry].transferSize = Bytes(0, 2147483646)
          /\ log[spans[k].entry].encodedBodySize = Bytes(0, 2147483647)
          /\ log[spans[k].entry].decodedBodySize = Bytes(1, 0)
          /\ "http.response_transfer_size" \in DOMAIN spans[k].attributes
          /\ "http.response_content_length" \notin DOMAIN spans[k].attributes
          /\ "http.decoded_response_content_length" \notin DOMAIN spans[k].attributes

\* C9 - Fetch/XHR suppression: a resource entry whose initiatorType is fetch
\* or xmlhttprequest yields no span; every other resource entry handed to
\* the switch yields exactly one span, of op resource.<initiatorType>, or
\* resource.other when it has no initiatorType (none, or an empty one).
C9_FetchXhrSuppression ==
    Added => \A i \in 1..Len(log) :
                 log[i].entryType = "resource"
                     => IF log[i].initiatorType \in { "fetch", "xmlhttprequest" }
                        THEN SpansOf(i) = {}
                        ELSE IF i \in Indices(dispatched)
                        THEN /\ Cardinality(SpansOf(i)) = 1
                             /\ \A k \in SpansOf(i) :
                                   spans[k].op =
                                       IF log[i].initiatorType \in { NoString, "" }
                                       THEN "resource.other"
                                       ELSE "resource." \o log[i].initiatorType
                        ELSE SpansOf(i) = {}

\* C9's case: a call that handed a fetch resource to the switch and made no
\* span.
C9_Witness ==
    /\ Added
    /\ spans = << >>
    /\ \E i \in Indices(dispatched) :
          log[i].entryType = "resource" /\ log[i].initiatorType = "fetch"

====
